---- MODULE Spec2Model ----
(***************************************************************************)
(* Model of src/src/preprocessamento.py: the compilation pipeline of the   *)
(* solar-generation data (listar_arquivos, ler_e_formatar_dados,           *)
(* processar_arquivo, compilar_dados).                                     *)
(*                                                                         *)
(* Conventions.                                                            *)
(*  - A text (file name, path, CSV cell) is a sequence of one-character    *)
(*    strings, so that substring tests, formatting and parsing are          *)
(*    computed character by character.                                     *)
(*  - A number of the "Energia" column is an exact fraction [n, d] in      *)
(*    lowest terms (d > 0).  The program computes with binary floating    *)
(*    point; rounding in the last bit is outside this model.               *)
(*  - A loss rate is given in thousandths (3 stands for 0.003).            *)
(***************************************************************************)
EXTENDS Integers, Sequences, FiniteSets, TLC

----------------------------------------------------------------------------
(* Texts *)

Digitos == <<"0", "1", "2", "3", "4", "5", "6", "7", "8", "9">>

EhDigito(c) == \E i \in 1..Len(Digitos) : Digitos[i] = c

Digito(c) == (CHOOSE i \in 1..Len(Digitos) : Digitos[i] = c) - 1

Char(d) == Digitos[d + 1]

\* Python's `sub in s` on strings.
Contem(sub, s) ==
    \E i \in 0..(Len(s) - Len(sub)) : SubSeq(s, i + 1, i + Len(sub)) = sub

\* os.path.join(a, b) for two components (POSIX).
path_join(a, b) ==
    IF Len(b) > 0 /\ b[1] = "/" THEN b
    ELSE IF Len(a) = 0 \/ a[Len(a)] = "/" THEN a \o b
    ELSE a \o <<"/">> \o b

\* str.upper() on the one-letter answers the prompt is given here.
upper(s) ==
    [i \in 1..Len(s) |->
        CASE s[i] = "s" -> "S"
          [] s[i] = "n" -> "N"
          [] s[i] = "x" -> "X"
          [] OTHER -> s[i]]

----------------------------------------------------------------------------
(* Exact fractions *)

RECURSIVE MDC(_, _)
MDC(a, b) == IF b = 0 THEN a ELSE MDC(b, a % b)

Abs(x) == IF x < 0 THEN -x ELSE x

Frac(n, d) ==
    LET g == MDC(Abs(n), d)
    IN  [n |-> n \div g, d |-> d \div g]

FracMul(a, b) ==
    LET g1 == MDC(Abs(a.n), b.d)
        g2 == MDC(Abs(b.n), a.d)
    IN  [n |-> (a.n \div g1) * (b.n \div g2), d |-> (a.d \div g2) * (b.d \div g1)]

FracDiv(a, b) == FracMul(a, [n |-> b.d, d |-> b.n])

Zero == Frac(0, 1)

----------------------------------------------------------------------------
(* Timestamps: pd.to_datetime(df.index, format="%d/%m/%y %H:%M") *)

Bissexto(ano) == (ano % 4 = 0 /\ ano % 100 # 0) \/ ano % 400 = 0

DiasNoMes(ano, mes) ==
    CASE mes \in {4, 6, 9, 11} -> 30
      [] mes = 2 -> IF Bissexto(ano) THEN 29 ELSE 28
      [] OTHER -> 31

\* One numeric directive of the format read at position p: one or two digits
\* (exactly two when `exato` holds, as for %y), value within lo..hi.
LerCampo(txt, p, lo, hi, exato) ==
    LET tem1 == p <= Len(txt) /\ EhDigito(txt[p])
        tem2 == tem1 /\ p + 1 <= Len(txt) /\ EhDigito(txt[p + 1])
        val  == IF tem2 THEN 10 * Digito(txt[p]) + Digito(txt[p + 1])
                ELSE IF tem1 THEN Digito(txt[p]) ELSE -1
        \* %d and %m have no one-digit alternative "0"
        zero1 == tem1 /\ ~tem2 /\ lo > 0 /\ val = 0
    IN  [ok   |-> tem1 /\ (exato => tem2) /\ val >= lo /\ val <= hi /\ ~zero1,
         val  |-> val,
         prox |-> IF tem2 THEN p + 2 ELSE p + 1]

\* A literal character of the format at position p.
Literal(txt, p, c) == p <= Len(txt) /\ txt[p] = c

\* %y: 69..99 are 1969..1999, 00..68 are 2000..2068.
AnoDeDoisDigitos(yy) == IF yy >= 69 THEN 1900 + yy ELSE 2000 + yy

\* The parse of one index entry under "%d/%m/%y %H:%M": ok is FALSE where the
\* program raises ValueError (time data does not match the format).
to_datetime(txt) ==
    LET d  == LerCampo(txt, 1, 1, 31, FALSE)
        m  == LerCampo(txt, d.prox + 1, 1, 12, FALSE)
        y  == LerCampo(txt, m.prox + 1, 0, 99, TRUE)
        h  == LerCampo(txt, y.prox + 1, 0, 23, FALSE)
        mi == LerCampo(txt, h.prox + 1, 0, 59, FALSE)
        ok == /\ d.ok /\ Literal(txt, d.prox, "/")
              /\ m.ok /\ Literal(txt, m.prox, "/")
              /\ y.ok /\ Literal(txt, y.prox, " ")
              /\ h.ok /\ Literal(txt, h.prox, ":")
              /\ mi.ok /\ mi.prox = Len(txt) + 1
              /\ d.val <= DiasNoMes(AnoDeDoisDigitos(y.val), m.val)
    IN  IF ok
        THEN [ok |-> TRUE,
              ts |-> [ano |-> AnoDeDoisDigitos(y.val), mes |-> m.val, dia |-> d.val,
                      hora |-> h.val, minuto |-> mi.val]]
        ELSE [ok |-> FALSE,
              ts |-> [ano |-> 0, mes |-> 0, dia |-> 0, hora |-> 0, minuto |-> 0]]

----------------------------------------------------------------------------
(* File Selector *)

\* listar_arquivos(diretorio, base_de_dados), with os.listdir(diretorio) given
\* as `entradas`: the tag is looked for in the joined path.
listar_arquivos(diretorio, base_de_dados, entradas) ==
    LET arquivos == [i \in 1..Len(entradas) |-> path_join(diretorio, entradas[i])]
        ContemBase(x) == Contem(base_de_dados, x)
    IN  SelectSeq(arquivos, ContemBase)

----------------------------------------------------------------------------
(* Record Normalizer *)

\* df /= 1000
escalar(kW) == Frac(kW, 1000)

\* Mutant of clamp: negative readings are kept.
clamp_ausente(x) == x

\* df.applymap(lambda x: 0 if x < 0 else x)
clamp(x) == IF x.n < 0 THEN Zero ELSE x

\* Mutant of ler_e_formatar_dados: rows whose index does not parse are dropped
\* instead of raising.
ler_e_formatar_dados_coerce(linhas) ==
    LET EntradaBoa(l) == to_datetime(l.indice).ok
        boas == SelectSeq(linhas, EntradaBoa)
    IN  [ok |-> TRUE,
         df |-> [i \in 1..Len(boas) |->
                    [indice  |-> to_datetime(boas[i].indice).ts,
                     Energia |-> clamp(escalar(boas[i].kW))]]]

\* ler_e_formatar_dados on the rows read from one raw file (index text, kW):
\* ok is FALSE where pd.to_datetime raises ValueError.
ler_e_formatar_dados(linhas) ==
    LET energia == [i \in 1..Len(linhas) |-> clamp(escalar(linhas[i].kW))]
        indice  == [i \in 1..Len(linhas) |-> to_datetime(linhas[i].indice)]
    IN  IF \E i \in 1..Len(linhas) : ~indice[i].ok
        THEN [ok |-> FALSE, df |-> <<>>]
        ELSE [ok |-> TRUE,
              df |-> [i \in 1..Len(linhas) |->
                        [indice |-> indice[i].ts, Energia |-> energia[i]]]]

----------------------------------------------------------------------------
(* Cache Gate *)

\* Mutant of processar_arquivo: the answer decides even when the file is absent.
processar_arquivo_sem_existe(existe, check_usuario) ==
    IF upper(check_usuario) = <<"S">> THEN "True"
    ELSE IF upper(check_usuario) = <<"N">> THEN "False"
    ELSE IF existe THEN "TypeError" ELSE "True"

\* Mutant of processar_arquivo: an invalid answer is taken as "N".
processar_arquivo_palpite(existe, check_usuario) ==
    IF existe
    THEN IF upper(check_usuario) = <<"S">> THEN "True" ELSE "False"
    ELSE "True"

\* processar_arquivo: `existe` is os.path.exists(arquivo), `check_usuario` the
\* answer input() returns (read only when the file exists).
processar_arquivo(existe, check_usuario) ==
    IF existe
    THEN IF upper(check_usuario) = <<"S">> THEN "True"
         ELSE IF upper(check_usuario) = <<"N">> THEN "False"
         ELSE "TypeError"
    ELSE "True"

\* Whether processar_arquivo calls input().
consulta_usuario(existe) == existe

----------------------------------------------------------------------------
(* Persistence: DataFrame.to_csv and pd.read_csv(index_col=0, parse_dates=True) *)

RECURSIVE DigitosDe(_)
\* The decimal digits of a natural number.
DigitosDe(n) == IF n < 10 THEN <<Char(n)>> ELSE Append(DigitosDe(n \div 10), Char(n % 10))

RECURSIVE DigitosFracao(_, _)
\* The decimal digits of r/d, 0 <= r < d, d a divisor of a power of ten.
DigitosFracao(r, d) ==
    IF r = 0 THEN <<>>
    ELSE <<Char((r * 10) \div d)>> \o DigitosFracao((r * 10) % d, d)

Pad2(n) == <<Char(n \div 10), Char(n % 10)>>

Pad4(n) == Pad2(n \div 100) \o Pad2(n % 100)

\* The text to_csv writes for a value: sign, integer part, point, fraction
\* digits ("0.0", "500.0", "493.515", "-0.05").
formatar_float(x) ==
    LET n    == Abs(x.n)
        frac == DigitosFracao(n % x.d, x.d)
    IN  (IF x.n < 0 THEN <<"-">> ELSE <<>>)
            \o DigitosDe(n \div x.d) \o <<".">> \o (IF frac = <<>> THEN <<"0">> ELSE frac)

\* Mutant of formatar_datetime: the date alone is always written.
formatar_datetime_so_data(ts, so_datas) ==
    Pad4(ts.ano) \o <<"-">> \o Pad2(ts.mes) \o <<"-">> \o Pad2(ts.dia)

\* The text to_csv writes for an index entry: the date alone when every entry
\* of the index is at midnight, date and time to the second otherwise.
formatar_datetime(ts, so_datas) ==
    LET data == Pad4(ts.ano) \o <<"-">> \o Pad2(ts.mes) \o <<"-">> \o Pad2(ts.dia)
    IN  IF so_datas THEN data
        ELSE data \o <<" ">> \o Pad2(ts.hora) \o <<":">> \o Pad2(ts.minuto)
                  \o <<":", "0", "0">>

\* df.to_csv(output_arquivo): the data rows of the file written.
to_csv(df) ==
    LET so_datas == \A i \in 1..Len(df) : df[i].indice.hora = 0 /\ df[i].indice.minuto = 0
    IN  [i \in 1..Len(df) |->
            [indice  |-> formatar_datetime(df[i].indice, so_datas),
             Energia |-> formatar_float(df[i].Energia)]]

RECURSIVE ValorDe(_)
\* The natural number a sequence of digits writes.
ValorDe(ds) ==
    IF ds = <<>> THEN 0 ELSE 10 * ValorDe(SubSeq(ds, 1, Len(ds) - 1)) + Digito(ds[Len(ds)])

RECURSIVE Pot10(_)
Pot10(k) == IF k = 0 THEN 1 ELSE 10 * Pot10(k - 1)

\* The number read_csv parses from a cell "[-]<digits>.<digits>".
parse_float(txt) ==
    LET negativo == txt[1] = "-"
        inicio   == IF negativo THEN 2 ELSE 1
        ponto    == CHOOSE i \in 1..Len(txt) : txt[i] = "."
        casas    == Len(txt) - ponto
        valor    == ValorDe(SubSeq(txt, inicio, ponto - 1)) * Pot10(casas)
                        + ValorDe(SubSeq(txt, ponto + 1, Len(txt)))
    IN  Frac(IF negativo THEN -valor ELSE valor, Pot10(casas))

\* The timestamp parse_dates=True parses from "YYYY-MM-DD" or
\* "YYYY-MM-DD HH:MM:SS".
parse_datetime(txt) ==
    [ano    |-> ValorDe(SubSeq(txt, 1, 4)),
     mes    |-> ValorDe(SubSeq(txt, 6, 7)),
     dia    |-> ValorDe(SubSeq(txt, 9, 10)),
     hora   |-> IF Len(txt) > 10 THEN ValorDe(SubSeq(txt, 12, 13)) ELSE 0,
     minuto |-> IF Len(txt) > 10 THEN ValorDe(SubSeq(txt, 15, 16)) ELSE 0]

\* pd.read_csv(output_arquivo, index_col=0, parse_dates=True) on the data rows.
read_csv(linhas) ==
    [i \in 1..Len(linhas) |->
        [indice  |-> parse_datetime(linhas[i].indice),
         Energia |-> parse_float(linhas[i].Energia)]]

----------------------------------------------------------------------------
(* Compiler: the pure steps of compilar_dados *)

RECURSIVE concat(_)
\* pd.concat(dados_por_ano, axis=0): the rows of the tables, one after another.
concat(dfs) == IF dfs = <<>> THEN <<>> ELSE dfs[1] \o concat(Tail(dfs))

\* (1 - perdas_transformador_alta_tensao) * (1 - perdas_linha_alta_tensao),
\* the rates in thousandths.
multiplicador(pt, pl) == FracMul(Frac(1000 - pt, 1000), Frac(1000 - pl, 1000))

\* Mutant of aplicar_perdas: the line loss is left out.
aplicar_perdas_so_transformador(df, pt, pl) ==
    [i \in 1..Len(df) |->
        [indice |-> df[i].indice, Energia |-> FracMul(df[i].Energia, Frac(1000 - pt, 1000))]]

\* df_concat *= multiplicador
aplicar_perdas(df, pt, pl) ==
    [i \in 1..Len(df) |->
        [indice |-> df[i].indice, Energia |-> FracMul(df[i].Energia, multiplicador(pt, pl))]]

\* Mutant of ramo: the compile branch is taken whatever the gate answered.
ramo_sempre_compila(processar) == "listar"

\* The branch compilar_dados takes on the gate's answer.
ramo(processar) == IF processar = "True" THEN "listar" ELSE "cache"

\* Mutant of salvar: the file is written whatever salvar_dados says.
salvar_sempre(salvar_dados, df_concat, antes) ==
    [existe |-> TRUE, linhas |-> to_csv(df_concat)]

\* What is in the output file after the compile branch: written when
\* salvar_dados is set, left as it was otherwise.
salvar(salvar_dados, df_concat, antes) ==
    IF salvar_dados THEN [existe |-> TRUE, linhas |-> to_csv(df_concat)] ELSE antes

----------------------------------------------------------------------------
(* The files and inputs the model runs on *)

\* The longest directory listing.
MaxArquivos == 2

BaseSol == <<"S", "o", "l">>
BaseOut == <<"O", "u", "t">>

\* The dataset tags compilar_dados is called with.
Bases == {BaseSol, BaseOut}

\* The source directories: the second one has the tag "Sol" in its own name.
Diretorios == {<<"d", "a", "d", "o", "s">>, <<"S", "o", "l", "a", "r">>}

Sol20 == <<"S", "o", "l", "2", "0">>
Sol21 == <<"S", "o", "l", "2", "1">>
Out99 == <<"O", "u", "t", "9", "9">>
SolXX == <<"S", "o", "l", "X", "X">>

Nomes == {Sol20, Sol21, Out99, SolXX}

\* The rows pd.read_csv(skiprows=11, sep=";", index_col=0, decimal=",") reads
\* from each raw file: index text and kW reading.
Conteudo(nome) ==
    CASE nome = Sol20 -> << [indice |-> <<"0", "1", "/", "0", "1", "/", "2", "0", " ", "0", "0", ":", "0", "0">>, kW |-> -50],
                            [indice |-> <<"0", "1", "/", "0", "1", "/", "2", "0", " ", "1", "2", ":", "0", "0">>, kW |-> 500000] >>
      [] nome = Sol21 -> << [indice |-> <<"1", "/", "1", "/", "2", "1", " ", "0", ":", "0", "0">>, kW |-> 1500] >>
      [] nome = Out99 -> << [indice |-> <<"1", "5", "/", "0", "6", "/", "9", "9", " ", "0", "8", ":", "1", "5">>, kW |-> 250],
                            [indice |-> <<"2", "9", "/", "0", "2", "/", "2", "0", " ", "2", "3", ":", "5", "9">>, kW |-> 0] >>
      [] nome = SolXX -> << [indice |-> <<"3", "1", "/", "1", "2", "/", "2", "1", " ", "2", "3", ":", "3", "0">>, kW |-> 100],
                            [indice |-> <<"2", "0", "2", "2", "-", "0", "1", "-", "0", "1", " ", "0", "0", ":", "0", "0">>, kW |-> 100] >>

\* The answers the prompt of processar_arquivo is given.
Respostas == {<<"S">>, <<"s">>, <<"N">>, <<"n">>, <<"x">>, <<>>}

\* The loss rates of a call, in thousandths: the defaults, and no loss.
Perdas == {<<3, 10>>, <<0, 0>>}

\* os.path.basename
basename(caminho) ==
    LET barras == {i \in 1..Len(caminho) : caminho[i] = "/"}
        ultima == IF barras = {} THEN 0 ELSE CHOOSE i \in barras : \A j \in barras : j <= i
    IN  SubSeq(caminho, ultima + 1, Len(caminho))

\* The directory listings: up to MaxArquivos distinct names, in any order.
Listagens ==
    {l \in UNION {[1..n -> Nomes] : n \in 0..MaxArquivos} :
        \A i, j \in 1..Len(l) : i # j => l[i] # l[j]}

Ausente == [existe |-> FALSE, linhas |-> <<>>]

\* An output file left by an earlier run, over a directory that then held the
\* single raw file Sol20, with the default loss rates.
DeOutraExecucao ==
    [existe |-> TRUE,
     linhas |-> to_csv(aplicar_perdas(ler_e_formatar_dados(Conteudo(Sol20)).df, 3, 10))]

SemChamada == [base |-> <<>>, salvou |-> FALSE, retorno |-> <<>>]

----------------------------------------------------------------------------
(* State *)

VARIABLES
    diretorio,      \* the source directory of the calls
    entradas,       \* os.listdir(diretorio)
    saida,          \* the output file of each tag: existence and data rows
    pc,             \* position of the running call of compilar_dados
    args,           \* its arguments
    processar,      \* what processar_arquivo returned
    arquivos,       \* what listar_arquivos returned
    dados_por_ano,  \* the tables normalized so far
    retornou,       \* the call returned a series
    retorno,        \* the series returned
    erro,           \* the exception the call ended in
    resposta,       \* the answer input() gave in this call
    consultas,      \* history: calls of input() in this call
    listou,         \* history: os.listdir ran in this call
    lidos,          \* the files the loop has taken from arquivos, in order
    leuCache,       \* history: the output file was read in this call
    saidaAntes,     \* history: the output files when this call began
    anterior        \* history: the previous call (tag, persisted, series returned)

vars == <<diretorio, entradas, saida, pc, args, processar, arquivos, dados_por_ano,
          retornou, retorno, erro, resposta, consultas, listou, lidos, leuCache,
          saidaAntes, anterior>>

NaoConsultado == <<"-">>

Init ==
    /\ diretorio \in Diretorios
    /\ entradas \in Listagens
    /\ saida \in [Bases -> {Ausente, DeOutraExecucao}]
    /\ pc = "idle"
    /\ args = [base_de_dados |-> BaseSol, pt |-> 0, pl |-> 0, salvar_dados |-> FALSE]
    /\ processar = "None"
    /\ arquivos = <<>>
    /\ dados_por_ano = <<>>
    /\ retornou = FALSE
    /\ retorno = <<>>
    /\ erro = "nenhum"
    /\ resposta = NaoConsultado
    /\ consultas = 0
    /\ listou = FALSE
    /\ lidos = <<>>
    /\ leuCache = FALSE
    /\ saidaAntes = saida
    /\ anterior = SemChamada

\* A call of compilar_dados begins (lines 90-125): the previous one, if any,
\* has returned or raised.
Chamar ==
    /\ pc \in {"idle", "done", "erro"}
    /\ \E b \in Bases, p \in Perdas, s \in BOOLEAN :
          args' = [base_de_dados |-> b, pt |-> p[1], pl |-> p[2], salvar_dados |-> s]
    /\ pc' = "gate"
    /\ processar' = "None"
    /\ arquivos' = <<>>
    /\ dados_por_ano' = <<>>
    /\ retornou' = FALSE
    /\ retorno' = <<>>
    /\ erro' = "nenhum"
    /\ resposta' = NaoConsultado
    /\ consultas' = 0
    /\ listou' = FALSE
    /\ lidos' = <<>>
    /\ leuCache' = FALSE
    /\ saidaAntes' = saida
    /\ anterior' = IF pc = "idle" THEN SemChamada
                   ELSE [base    |-> args.base_de_dados,
                         salvou  |-> pc = "done" /\ processar = "True" /\ args.salvar_dados,
                         retorno |-> retorno]
    /\ UNCHANGED <<diretorio, entradas, saida>>

\* processar = processar_arquivo(arquivo=output_arquivo) (line 128) and the
\* branch on it (line 130).
Gate ==
    /\ pc = "gate"
    /\ \E r \in Respostas :
          LET existe == saida[args.base_de_dados].existe
              res    == processar_arquivo(existe, r)
          IN  /\ resposta' = IF consulta_usuario(existe) THEN r ELSE NaoConsultado
              /\ consultas' = IF consulta_usuario(existe) THEN consultas + 1 ELSE consultas
              /\ processar' = res
              /\ pc' = IF res = "TypeError" THEN "erro" ELSE ramo(res)
              /\ erro' = IF res = "TypeError" THEN "TypeError" ELSE erro
    /\ UNCHANGED <<diretorio, entradas, saida, args, arquivos, dados_por_ano, retornou,
                   retorno, listou, lidos, leuCache, saidaAntes, anterior>>

\* arquivos = listar_arquivos(diretorio, base_de_dados) (line 132).
Listar ==
    /\ pc = "listar"
    /\ arquivos' = listar_arquivos(diretorio, args.base_de_dados, entradas)
    /\ listou' = TRUE
    /\ pc' = "ler"
    /\ UNCHANGED <<diretorio, entradas, saida, args, processar, dados_por_ano, retornou,
                   retorno, erro, resposta, consultas, lidos, leuCache, saidaAntes,
                   anterior>>

\* One iteration of the loop over arquivos (lines 136-146).
Ler ==
    /\ pc = "ler"
    /\ Len(lidos) < Len(arquivos)
    /\ LET arquivo == arquivos[Len(lidos) + 1]
           r       == ler_e_formatar_dados(Conteudo(basename(arquivo)))
       IN  /\ lidos' = Append(lidos, arquivo)
           /\ dados_por_ano' = IF r.ok THEN Append(dados_por_ano, r.df) ELSE dados_por_ano
           /\ pc' = IF r.ok THEN "ler" ELSE "erro"
           /\ erro' = IF r.ok THEN erro ELSE "ValueError: time data"
    /\ UNCHANGED <<diretorio, entradas, saida, args, processar, arquivos, retornou,
                   retorno, resposta, consultas, listou, leuCache, saidaAntes, anterior>>

\* After the loop: pd.concat, the losses, to_csv when asked, return
\* (lines 149-159).  pd.concat of an empty list raises ValueError.
Consolidar ==
    /\ pc = "ler"
    /\ Len(lidos) = Len(arquivos)
    /\ LET vazio     == dados_por_ano = <<>>
           df_concat == aplicar_perdas(concat(dados_por_ano), args.pt, args.pl)
       IN  /\ pc' = IF vazio THEN "erro" ELSE "done"
           /\ erro' = IF vazio THEN "ValueError: No objects to concatenate" ELSE erro
           /\ retornou' = ~vazio
           /\ retorno' = IF vazio THEN retorno ELSE df_concat
           /\ saida' = IF vazio THEN saida
                       ELSE [saida EXCEPT ![args.base_de_dados] =
                                salvar(args.salvar_dados, df_concat, @)]
    /\ UNCHANGED <<diretorio, entradas, args, processar, arquivos, dados_por_ano,
                   resposta, consultas, listou, lidos, leuCache, saidaAntes, anterior>>

\* return pd.read_csv(output_arquivo, index_col=0, parse_dates=True) (line 161).
LerCache ==
    /\ pc = "cache"
    /\ leuCache' = TRUE
    /\ retornou' = TRUE
    /\ retorno' = read_csv(saida[args.base_de_dados].linhas)
    /\ pc' = "done"
    /\ UNCHANGED <<diretorio, entradas, saida, args, processar, arquivos, dados_por_ano,
                   erro, resposta, consultas, listou, lidos, saidaAntes, anterior>>

Next == Chamar \/ Gate \/ Listar \/ Ler \/ Consolidar \/ LerCache

Spec == Init /\ [][Next]_vars

----------------------------------------------------------------------------
(* Vocabulary of the properties *)

\* The running call has ended: it returned or raised.
Fim == pc \in {"done", "erro"}

\* The call is past the gate.
AposGate == pc \notin {"idle", "gate"}

\* The output file of the call's tag existed when the call began.
Existia == saidaAntes[args.base_de_dados].existe

\* The decision the call was given.
Reprocess == upper(resposta) = <<"S">>
Reuse == upper(resposta) = <<"N">>
Invalida == resposta # NaoConsultado /\ ~Reprocess /\ ~Reuse

\* The compile branch was taken: the file was absent or the decision was reprocess.
RamoCompilar == AposGate /\ (~Existia \/ Reprocess)

Prefixo(a, b) == Len(a) <= Len(b) /\ SubSeq(b, 1, Len(a)) = a

\* An index entry of the raw file does not parse.
IndiceInvalido(arquivo) ==
    \E i \in 1..Len(Conteudo(basename(arquivo))) :
        ~to_datetime(Conteudo(basename(arquivo))[i].indice).ok

RECURSIVE LinhasBrutas(_)
\* The raw rows of the files, file after file.
LinhasBrutas(arqs) ==
    IF arqs = <<>> THEN <<>>
    ELSE Conteudo(basename(arqs[1])) \o LinhasBrutas(Tail(arqs))

\* No directory entry has the tag in its name.
NenhumNomeCasa == \A i \in 1..Len(entradas) : ~Contem(args.base_de_dados, entradas[i])

----------------------------------------------------------------------------
(* C1 *)

\* C1: a call on the compile branch whose tag matches no file of the source
\* directory returns an empty series and does not end in an error.
C1_VazioRetornaSerieVazia ==
    (Fim /\ RamoCompilar /\ NenhumNomeCasa /\ listou /\ arquivos = <<>>)
        => (pc = "done" /\ retornou /\ retorno = <<>> /\ erro = "nenhum")

----------------------------------------------------------------------------
(* C2 *)

\* C2 as stated: where the output file existed, a reprocess call lists the
\* directory, normalizes every matched raw file and never reads the cached
\* output; a reuse call reads only the cached output.
C2_Original ==
    (Fim /\ Existia) =>
        /\ Reprocess => (listou /\ lidos = arquivos /\ ~leuCache)
        /\ Reuse => (leuCache /\ ~listou /\ lidos = <<>>)

\* C2 (amended): where the output file existed, a reprocess call lists the
\* directory and normalizes the matched raw files in discovery order, every one
\* of them unless one fails to parse, in which case it stops at that file; it
\* never reads the cached output.  A reuse call reads only the cached output:
\* it never lists the directory and reads no raw file.
C2_ReprocessIngereReuseSoCache ==
    (AposGate /\ Existia) =>
        /\ Reprocess =>
              /\ ~leuCache
              /\ Prefixo(lidos, arquivos)
              /\ Fim => listou
              /\ pc = "done" => lidos = arquivos
              /\ (Fim /\ lidos # arquivos) =>
                    (erro = "ValueError: time data" /\ IndiceInvalido(lidos[Len(lidos)]))
        /\ Reuse =>
              /\ ~listou
              /\ lidos = <<>>
              /\ Fim => (leuCache /\ pc = "done")

\* A reprocess call over an existing output that normalized two raw files.
C2_Witness ==
    pc = "done" /\ Existia /\ Reprocess /\ listou /\ Len(lidos) = 2 /\ ~leuCache

----------------------------------------------------------------------------
(* C3 *)

\* C3: the gate returns true whenever the output path does not exist, and then
\* the decision source is not consulted; it is consulted only when the file
\* exists, at most once per call, and then reprocess maps to true and reuse to
\* false.
C3_GateSoConsultaSeExiste ==
    /\ consultas <= 1
    /\ consultas = 1 => Existia
    /\ (pc \in {"idle", "gate"}) => consultas = 0
    /\ AposGate =>
          /\ ~Existia => (processar = "True" /\ consultas = 0 /\ resposta = NaoConsultado)
          /\ Existia => consultas = 1
          /\ (Existia /\ Reprocess) => processar = "True"
          /\ (Existia /\ Reuse) => processar = "False"

\* The gate let a call through without asking, the file of its tag being
\* absent, after an earlier call for the other tag.
C3_Witness ==
    /\ AposGate /\ ~Existia /\ processar = "True" /\ consultas = 0
    /\ anterior.base # <<>> /\ anterior.base # args.base_de_dados

----------------------------------------------------------------------------
(* C4 *)

\* C4: when the output file exists and the decision is neither reprocess nor
\* reuse, the call ends in the invalid-response error (TypeError) before any
\* compilation work: no listing, no raw file read, no cache read, the output
\* file unchanged; the gate maps the value neither to true nor to false.
C4_RespostaInvalidaAborta ==
    (AposGate /\ Existia /\ Invalida) =>
        /\ pc = "erro"
        /\ erro = "TypeError"
        /\ processar \notin {"True", "False"}
        /\ ~listou
        /\ lidos = <<>>
        /\ ~leuCache
        /\ ~retornou
        /\ saida = saidaAntes

\* A call over an existing output was given the empty answer.
C4_Witness == pc = "erro" /\ Existia /\ resposta = <<>> /\ erro = "TypeError"

----------------------------------------------------------------------------
(* C5 *)

----------------------------------------------------------------------------
(* C6 *)

\* The full paths of the entries whose name contains the tag, in listing order.
EntradasComBaseNoNome(dir, base, ents) ==
    LET NomeContem(nome) == Contem(base, nome)
        nomes == SelectSeq(ents, NomeContem)
    IN  [i \in 1..Len(nomes) |-> path_join(dir, nomes[i])]

\* C6: listar_arquivos returns exactly the full paths of the directory entries
\* whose file name contains the tag, in listing order, whatever the directory
\* path is.
C6_SelecionaPeloNome ==
    listou => arquivos = EntradasComBaseNoNome(diretorio, args.base_de_dados, entradas)

----------------------------------------------------------------------------
(* C7 *)

\* C7: every table the normalizer returned has one row per raw row, in the
\* same order; a raw value v < 0 gives exactly 0, a raw value v >= 0 gives
\* v / 1000; so every value is >= 0.
C7_NormalizaEscalaEClampa ==
    \A k \in 1..Len(dados_por_ano) :
        LET bruto == Conteudo(basename(arquivos[k]))
            df    == dados_por_ano[k]
        IN  /\ Len(df) = Len(bruto)
            /\ \A i \in 1..Len(df) :
                  /\ df[i].indice = to_datetime(bruto[i].indice).ts
                  /\ df[i].Energia.d > 0
                  /\ df[i].Energia.n >= 0
                  /\ bruto[i].kW < 0 => df[i].Energia.n = 0
                  /\ bruto[i].kW >= 0 => df[i].Energia.n * 1000 = bruto[i].kW * df[i].Energia.d

\* The normalizer returned the table of a raw file with a negative reading
\* and a positive one.
C7_Witness ==
    \E k \in 1..Len(dados_por_ano) :
        LET bruto == Conteudo(basename(arquivos[k]))
        IN  /\ \E i \in 1..Len(bruto) : bruto[i].kW < 0
            /\ \E i \in 1..Len(bruto) : bruto[i].kW > 0 /\ dados_por_ano[k][i].Energia.n > 0

----------------------------------------------------------------------------
(* C8 *)

\* C8: the series the compile branch returns has the rows of all matched
\* files, file after file in discovery order, none dropped or reordered, and
\* each value is the normalized value (0 for a negative reading, v / 1000
\* otherwise) times (1 - transformer loss) * (1 - line loss), once.
C8_ConcatenaEAplicaPerdasUmaVez ==
    (pc = "done" /\ processar = "True") =>
        LET bruto == LinhasBrutas(arquivos)
            mult  == Frac((1000 - args.pt) * (1000 - args.pl), 1000000)
        IN  /\ Len(retorno) = Len(bruto)
            /\ \A i \in 1..Len(retorno) :
                  /\ retorno[i].indice = to_datetime(bruto[i].indice).ts
                  /\ retorno[i].Energia =
                        FracMul(IF bruto[i].kW < 0 THEN Zero ELSE Frac(bruto[i].kW, 1000), mult)

\* A compile of two files (three rows or more) with the default loss rates
\* returned: the reading 500000 came out as 493.515.
C8_Witness ==
    /\ pc = "done" /\ processar = "True" /\ Len(arquivos) = 2 /\ Len(retorno) >= 3
    /\ args.pt = 3 /\ args.pl = 10
    /\ \E i \in 1..Len(retorno) :
          /\ LinhasBrutas(arquivos)[i].kW = 500000
          /\ retorno[i].Energia = Frac(493515, 1000)

----------------------------------------------------------------------------
(* C9 *)

\* C9: if a raw file the call normalized has an index entry that does not
\* parse, the call ends in that error: no series is returned, no later file is
\* read, and the output files are as they were when the call began.
C9_ErroDeFormatoAbortaTudo ==
    \A k \in 1..Len(lidos) :
        IndiceInvalido(lidos[k]) =>
            /\ pc = "erro"
            /\ erro = "ValueError: time data"
            /\ k = Len(lidos)
            /\ ~retornou
            /\ retorno = <<>>
            /\ saida = saidaAntes

\* A call asked to persist, over an existing output, normalized one file and
\* then failed on the next one.
C9_Witness ==
    /\ pc = "erro" /\ erro = "ValueError: time data"
    /\ args.salvar_dados /\ Existia
    /\ Len(dados_por_ano) = 1 /\ Len(lidos) = 2

----------------------------------------------------------------------------
(* C10 *)

\* C10: the output files differ from what they were when the call began only
\* after the call took the compile branch with the persist flag set and
\* returned; then only the file of the call's tag differs and it reads back as
\* the series returned; an existing file differs only after the decision
\* reprocess.  Every such call leaves the file holding what it returned.
C10_SoCompilarComSalvarEscreve ==
    /\ saida # saidaAntes =>
          /\ pc = "done"
          /\ erro = "nenhum"
          /\ processar = "True"
          /\ args.salvar_dados
          /\ Existia => Reprocess
          /\ \A b \in Bases : b # args.base_de_dados => saida[b] = saidaAntes[b]
    /\ (pc = "done" /\ processar = "True" /\ args.salvar_dados) =>
          /\ saida[args.base_de_dados].existe
          /\ retornou
          /\ read_csv(saida[args.base_de_dados].linhas) = retorno

\* A reprocess call with the persist flag replaced an existing output file by
\* a different one.
C10_Witness ==
    /\ pc = "done" /\ Existia /\ Reprocess /\ args.salvar_dados
    /\ saida[args.base_de_dados] # saidaAntes[args.base_de_dados]
    /\ \E b \in Bases : b # args.base_de_dados /\ saida[b].existe

====
